---- MODULE Spec2Model ----
(***************************************************************************)
(* Bluetooth call-state bridge of the head unit: PhoneManager              *)
(* (backend/modules/phone_manager.py) and the server-sent-events endpoint  *)
(* /api/phone/events (app.py).                                             *)
(*                                                                         *)
(* Python None is the string NULL; a D-Bus change-set is a record whose    *)
(* DOMAIN is the set of properties the signal carries.                     *)
(***************************************************************************)
EXTENDS Integers, Sequences, FiniteSets, TLC

VARIABLES
    IS_LINUX, DBUS_AVAILABLE, GLIB_AVAILABLE,
    running, bus, receivers,
    start_calls, stop_calls, loop_threads, loop, poll_threads,
    removed_pc, hangup_pc, observed,
    connected_device, device_name, call_state, caller_id, caller_name,
    active_call_path, recent_calls,
    event_queue, notify_count, listeners, invoked,
    clock,
    last, requests,
    clients

platformVars == <<IS_LINUX, DBUS_AVAILABLE, GLIB_AVAILABLE>>
lifeVars     == <<running, bus, receivers, start_calls, stop_calls,
                  loop_threads, loop, poll_threads>>
raceVars     == <<removed_pc, hangup_pc, observed>>
bundle       == <<connected_device, device_name, call_state, caller_id,
                  caller_name, active_call_path, recent_calls>>
fanoutVars   == <<event_queue, notify_count, listeners, invoked>>
cmdVars      == <<last, requests>>
vars == <<platformVars, lifeVars, raceVars, bundle, fanoutVars, clock, cmdVars,
         clients>>

NULL == "None"

\* Python truthiness of an optional string: None and "" are false.
Truthy(x) == x # NULL /\ x # ""

(***************************************************************************)
(* Bounds of the model.                                                    *)
(***************************************************************************)
\* Spec: snapshots produced before the signal sources are cut off.
MaxNotifies == 3
\* Spec: HTTP commands served.
MaxRequests == 2
\* SpecRecent: snapshots produced (two per call: added, removed).
MaxRecentNotifies == 44
\* SpecRecent: minutes the wall clock advances.
MaxClock == 1
\* SpecStream: snapshots produced.
MaxStreamNotifies == 2
\* SpecStream: frames one streaming connection is followed for.
MaxFrames == 4

(***************************************************************************)
(* Program constants.                                                      *)
(***************************************************************************)
\* self.recent_calls[:20]
RecentCap == 20
\* self.recent_calls[:10] in get_status
StatusCap == 10
\* self.event_queue = queue.Queue(): the default maxsize, which queue.Queue
\* takes to mean a queue of unlimited size.
QueueMaxSize == 0
\* app.py imports the phone manager; the import of this repository's own
\* module succeeds, so the flag is set.
PHONE_MANAGER_AVAILABLE == TRUE

(***************************************************************************)
(* Inputs.                                                                 *)
(***************************************************************************)
CallPaths   == {"/call/1"}
CallerIds   == {"+15551234567"}
CallerNames == {"Bob"}
Addresses   == {"AA:BB"}
DeviceNames == {"Pixel 7"}

\* Change-sets of a Call1 object (PropertiesChanged, or the property
\* dictionary of InterfacesAdded).
CallChanges ==
    { [State |-> "incoming", LineIdentification |-> i] : i \in CallerIds }
    \cup { [State |-> "active"], [State |-> "disconnected"] }
    \cup { [LineIdentification |-> i] : i \in CallerIds }
    \cup { [Name |-> n] : n \in CallerNames }
    \cup { [Multiparty |-> "no"] }

\* Change-sets of a Device1 object.
DeviceChanges ==
    { [Connected |-> TRUE], [Connected |-> FALSE], [Paired |-> TRUE] }
    \cup { [Name |-> n] : n \in DeviceNames }
    \cup { [Connected |-> b, Name |-> n] : b \in BOOLEAN, n \in DeviceNames }

\* What the daemon answers to props.Get(Address) / props.Get(Name) in
\* _on_device_connected: both succeed, the first raises, the second raises.
DeviceReads ==
    { [outcome |-> o, Address |-> a, Name |-> n] :
        o \in {"ok", "address_raises", "name_raises"},
        a \in Addresses, n \in DeviceNames }

\* The reads of a signal that is not about a device: none is made.
NoRead == [outcome |-> "address_raises", Address |-> NULL, Name |-> NULL]

\* Outcome of the direct D-Bus method call and of the dbus-send fallback.
DirectOutcomes   == {"ok", "raises"}
FallbackOutcomes == {"rc0", "rc1", "raises"}

(***************************************************************************)
(* The state bundle as one value, so that a handler is a composition of    *)
(* its statements.                                                         *)
(***************************************************************************)
Cur ==
    [ connected_device |-> connected_device,
      device_name      |-> device_name,
      call_state       |-> call_state,
      caller_id        |-> caller_id,
      caller_name      |-> caller_name,
      active_call_path |-> active_call_path,
      recent_calls     |-> recent_calls,
      event_queue      |-> event_queue,
      notify_count     |-> notify_count,
      listeners        |-> listeners,
      invoked          |-> invoked ]

Apply(s) ==
    /\ connected_device' = s.connected_device
    /\ device_name'      = s.device_name
    /\ call_state'       = s.call_state
    /\ caller_id'        = s.caller_id
    /\ caller_name'      = s.caller_name
    /\ active_call_path' = s.active_call_path
    /\ recent_calls'     = s.recent_calls
    /\ event_queue'      = s.event_queue
    /\ notify_count'     = s.notify_count
    /\ listeners'        = s.listeners
    /\ invoked'          = s.invoked

Take(seq, n) == SubSeq(seq, 1, IF Len(seq) < n THEN Len(seq) ELSE n)

\* Mutant of GetStatus: the whole stored list goes into the snapshot.
GetStatusUncapped(s) ==
    [ connected    |-> s.connected_device # NULL,
      device       |-> s.connected_device,
      device_name  |-> s.device_name,
      call_state   |-> s.call_state,
      state        |-> s.call_state,
      caller_id    |-> s.caller_id,
      caller       |-> s.caller_id,
      caller_name  |-> s.caller_name,
      recent_calls |-> s.recent_calls ]

\* PhoneManager.get_status
GetStatus(s) ==
    [ connected    |-> s.connected_device # NULL,
      device       |-> s.connected_device,
      device_name  |-> s.device_name,
      call_state   |-> s.call_state,
      state        |-> s.call_state,
      caller_id    |-> s.caller_id,
      caller       |-> s.caller_id,
      caller_name  |-> s.caller_name,
      recent_calls |-> Take(s.recent_calls, StatusCap) ]

\* queue.Queue.put_nowait: queue.Full is raised when maxsize > 0 and the
\* queue holds maxsize items (_notify_listeners swallows it and the item is
\* dropped); with maxsize <= 0 the queue takes every item.
QueuePut(q, item) ==
    IF QueueMaxSize > 0 /\ Len(q) >= QueueMaxSize THEN q ELSE Append(q, item)

\* The callables given to subscribe(), by what they do when invoked: one
\* returns, one raises an Exception, one unsubscribes itself (a one-shot
\* listener), one subscribes the first.
Callbacks == {"cb_log", "cb_raises", "cb_once", "cb_adder"}

\* list.remove: the first occurrence of x leaves the list.
Remove(seq, x) ==
    LET i == CHOOSE k \in DOMAIN seq :
                 seq[k] = x /\ \A j \in 1..(k - 1) : seq[j] # x
    IN  SubSeq(seq, 1, i - 1) \o SubSeq(seq, i + 1, Len(seq))

\* PhoneManager.subscribe on the bundle
SubscribeTo(s, callback) ==
    [s EXCEPT !.listeners = Append(@, callback)]

\* PhoneManager.unsubscribe on the bundle
UnsubscribeFrom(s, callback) ==
    IF \E k \in DOMAIN s.listeners : s.listeners[k] = callback
    THEN [s EXCEPT !.listeners = Remove(@, callback)]
    ELSE s

\* callback(data): what the callable does to the manager.
Call(s, callback) ==
    CASE callback = "cb_once"  -> UnsubscribeFrom(s, callback)
      [] callback = "cb_adder" -> SubscribeTo(s, "cb_log")
      [] OTHER                 -> s

\* for callback in self.listeners: try: callback(data) except Exception:
\* the loop from index i on.  The list iterator keeps an index into the
\* list itself, so after the body it moves to the next index of the list as
\* it is by then.  An Exception raised by the callable is logged and the
\* loop goes on.
RECURSIVE InvokeListeners(_, _, _)
InvokeListeners(s, data, i) ==
    IF i > Len(s.listeners) THEN s
    ELSE LET callback == s.listeners[i]
             s1 == [s EXCEPT !.invoked =
                        Append(@, [callback |-> callback, data |-> data,
                                   raised |-> callback = "cb_raises"])]
             s2 == Call(s1, callback)
         IN  InvokeListeners(s2, data, i + 1)

\* PhoneManager._notify_listeners: one snapshot is computed, put on the
\* queue and handed to each listener; invoked holds the calls of the most
\* recent notify.
NotifyListeners(s) ==
    LET data == GetStatus(s)
    IN  InvokeListeners(
            [s EXCEPT !.event_queue  = QueuePut(@, data),
                      !.notify_count = @ + 1,
                      !.invoked      = <<>>],
            data, 1)

\* The state strings of the model, letter by letter.
Spelling ==
       ("incoming" :> <<"i", "n", "c", "o", "m", "i", "n", "g">>)
    @@ ("dialing" :> <<"d", "i", "a", "l", "i", "n", "g">>)
    @@ ("alerting" :> <<"a", "l", "e", "r", "t", "i", "n", "g">>)
    @@ ("active" :> <<"a", "c", "t", "i", "v", "e">>)
    @@ ("held" :> <<"h", "e", "l", "d">>)
    @@ ("waiting" :> <<"w", "a", "i", "t", "i", "n", "g">>)
    @@ ("disconnected" :> <<"d", "i", "s", "c", "o", "n", "n", "e", "c", "t", "e", "d">>)
    @@ ("Incoming" :> <<"I", "n", "c", "o", "m", "i", "n", "g">>)
    @@ ("INCOMING" :> <<"I", "N", "C", "O", "M", "I", "N", "G">>)
    @@ ("Dialing" :> <<"D", "i", "a", "l", "i", "n", "g">>)
    @@ ("DiAlInG" :> <<"D", "i", "A", "l", "I", "n", "G">>)
    @@ ("ALERTING" :> <<"A", "L", "E", "R", "T", "I", "N", "G">>)
    @@ ("Active" :> <<"A", "c", "t", "i", "v", "e">>)
    @@ ("ACTIVE" :> <<"A", "C", "T", "I", "V", "E">>)
    @@ ("Held" :> <<"H", "e", "l", "d">>)
    @@ ("HELD" :> <<"H", "E", "L", "D">>)
    @@ ("Waiting" :> <<"W", "a", "i", "t", "i", "n", "g">>)
    @@ ("Disconnected" :> <<"D", "i", "s", "c", "o", "n", "n", "e", "c", "t", "e", "d">>)
    @@ ("DISCONNECTED" :> <<"D", "I", "S", "C", "O", "N", "N", "E", "C", "T", "E", "D">>)
    @@ ("Ringing" :> <<"R", "i", "n", "g", "i", "n", "g">>)
    @@ ("ringing" :> <<"r", "i", "n", "g", "i", "n", "g">>)
    @@ ("RELEASED" :> <<"R", "E", "L", "E", "A", "S", "E", "D">>)
    @@ ("released" :> <<"r", "e", "l", "e", "a", "s", "e", "d">>)

\* The string with the given spelling.
Spelled(letters) == CHOOSE str \in DOMAIN Spelling : Spelling[str] = letters

UpperLetters ==
    <<"A", "B", "C", "D", "E", "F", "G", "H", "I", "J", "K", "L", "M",
      "N", "O", "P", "Q", "R", "S", "T", "U", "V", "W", "X", "Y", "Z">>
LowerLetters ==
    <<"a", "b", "c", "d", "e", "f", "g", "h", "i", "j", "k", "l", "m",
      "n", "o", "p", "q", "r", "s", "t", "u", "v", "w", "x", "y", "z">>

\* str.lower on one character: an upper-case letter becomes its lower-case
\* letter, any other character stays.
LowerChar(c) ==
    IF \E i \in DOMAIN UpperLetters : UpperLetters[i] = c
    THEN LowerLetters[CHOOSE i \in DOMAIN UpperLetters : UpperLetters[i] = c]
    ELSE c

\* Mutant of Lower: the string is taken as it is.
LowerNot(str) == str

\* str.lower on the daemon's state strings.
Lower(str) ==
    Spelled([i \in DOMAIN Spelling[str] |-> LowerChar(Spelling[str][i])])

\* state_map.get(state_lower, state_lower)
StateMap(state_lower) ==
    CASE state_lower = "incoming"     -> "incoming"
      [] state_lower = "dialing"      -> "outgoing"
      [] state_lower = "alerting"     -> "alerting"
      [] state_lower = "active"       -> "active"
      [] state_lower = "held"         -> "held"
      [] state_lower = "waiting"      -> "incoming"
      [] state_lower = "disconnected" -> "idle"
      [] OTHER                        -> state_lower

\* PhoneManager._update_call_state
UpdateCallState(s, state) ==
    [s EXCEPT !.call_state = StateMap(Lower(state))]

\* PhoneManager._on_device_disconnected
OnDeviceDisconnected(s) ==
    NotifyListeners(
        [s EXCEPT !.connected_device = NULL,
                  !.device_name      = NULL,
                  !.call_state       = "idle",
                  !.caller_id        = NULL,
                  !.caller_name      = NULL,
                  !.active_call_path = NULL])

\* PhoneManager._on_device_connected: nothing without a bus; an exception of
\* the second Get leaves the address of the first assigned.
OnDeviceConnected(s, hasBus, read) ==
    IF ~hasBus THEN s
    ELSE IF read.outcome = "address_raises" THEN s
    ELSE IF read.outcome = "name_raises"
         THEN [s EXCEPT !.connected_device = read.Address]
    ELSE NotifyListeners(
             [s EXCEPT !.connected_device = read.Address,
                       !.device_name      = read.Name])

\* _handle_properties_changed, interface org.bluez.Call1
CallPropertiesChanged(s, changed, path) ==
    LET s1 == IF "State" \in DOMAIN changed
              THEN [UpdateCallState(s, changed.State)
                        EXCEPT !.active_call_path = path]
              ELSE s
        s2 == IF "LineIdentification" \in DOMAIN changed
              THEN [s1 EXCEPT !.caller_id = changed.LineIdentification]
              ELSE s1
        s3 == IF "Name" \in DOMAIN changed
              THEN [s2 EXCEPT !.caller_name = changed.Name]
              ELSE s2
    IN  NotifyListeners(s3)

\* _handle_properties_changed, interface org.bluez.Device1
DevicePropertiesChanged(s, changed, hasBus, read) ==
    LET s1 == IF "Connected" \in DOMAIN changed
              THEN IF changed.Connected
                   THEN OnDeviceConnected(s, hasBus, read)
                   ELSE OnDeviceDisconnected(s)
              ELSE s
    IN  IF "Name" \in DOMAIN changed
        THEN NotifyListeners([s1 EXCEPT !.device_name = changed.Name])
        ELSE s1

\* PhoneManager._handle_interfaces_added, "org.bluez.Call1" in interfaces
CallInterfaceAdded(s, call_props, path) ==
    LET s0 == [s EXCEPT !.active_call_path = path]
        s1 == IF "State" \in DOMAIN call_props
              THEN UpdateCallState(s0, call_props.State)
              ELSE s0
        s2 == IF "LineIdentification" \in DOMAIN call_props
              THEN [s1 EXCEPT !.caller_id = call_props.LineIdentification]
              ELSE s1
        s3 == IF "Name" \in DOMAIN call_props
              THEN [s2 EXCEPT !.caller_name = call_props.Name]
              ELSE s2
    IN  NotifyListeners(s3)

\* Mutant of RecentCallEntry: every logged call is an incoming one.
RecentCallEntryIncoming(s, now) ==
    [ number |-> s.caller_id,
      name   |-> IF Truthy(s.caller_name) THEN s.caller_name ELSE s.caller_id,
      type   |-> "incoming",
      time   |-> now ]

\* The entry _handle_interfaces_removed logs for the call that ended.
RecentCallEntry(s, now) ==
    [ number |-> s.caller_id,
      name   |-> IF Truthy(s.caller_name) THEN s.caller_name ELSE s.caller_id,
      type   |-> IF s.call_state = "incoming" THEN "incoming" ELSE "outgoing",
      time   |-> now ]

\* Mutant of LogRecentCall: the entry is appended instead of inserted at 0.
LogRecentCallAppend(calls, entry) == Take(Append(calls, entry), RecentCap)

\* self.recent_calls.insert(0, entry); self.recent_calls = self.recent_calls[:20]
LogRecentCall(calls, entry) == Take(<<entry>> \o calls, RecentCap)

\* PhoneManager._handle_interfaces_removed, "org.bluez.Call1" in interfaces
CallInterfaceRemoved(s, now) ==
    LET s1 == IF Truthy(s.caller_id)
              THEN [s EXCEPT !.recent_calls =
                                 LogRecentCall(@, RecentCallEntry(s, now))]
              ELSE s
    IN  NotifyListeners(
            [s1 EXCEPT !.call_state       = "idle",
                       !.caller_id        = NULL,
                       !.caller_name      = NULL,
                       !.active_call_path = NULL])

\* PhoneManager._check_connected_devices: the first connected Device1 of
\* GetManagedObjects(), if any; an exception is logged and swallowed.
Enumerations ==
    { [outcome |-> "none"], [outcome |-> "error"] }
    \cup { [outcome |-> "found", Address |-> a, Name |-> n] :
             a \in Addresses, n \in DeviceNames }

CheckConnectedDevices(s, hasBus, enum) ==
    IF ~hasBus THEN s
    ELSE IF enum.outcome = "found"
         THEN NotifyListeners(
                  [s EXCEPT !.connected_device = enum.Address,
                            !.device_name      = enum.Name])
    ELSE s

\* Output of "bluetoothctl devices Connected": the first "Device <addr>
\* <name>" line, none, or the subprocess raising (timeout, missing binary).
Listings ==
    { [outcome |-> "none"], [outcome |-> "raises"] }
    \cup { [outcome |-> "found", Address |-> a, Name |-> n] :
             a \in Addresses, n \in DeviceNames }

\* PhoneManager._check_connection_bluetoothctl
CheckConnectionBluetoothctl(s, isLinux, listing) ==
    IF ~isLinux THEN s
    ELSE IF listing.outcome = "raises" THEN s
    ELSE IF listing.outcome = "found"
         THEN IF s.connected_device # listing.Address
              THEN NotifyListeners(
                       [s EXCEPT !.connected_device = listing.Address,
                                 !.device_name      = listing.Name])
              ELSE s
    ELSE IF Truthy(s.connected_device)
         THEN OnDeviceDisconnected(s)
    ELSE s

(***************************************************************************)
(* Commands.  `last` is the response of the last command served together   *)
(* with what it did at the daemon: direct is the outcome of the D-Bus      *)
(* method call ("none" when not attempted), fallback that of dbus-send,    *)
(* target the object path dbus-send was given.                             *)
(***************************************************************************)
Response(op, success, message, direct, fallback, target) ==
    [ op |-> op, success |-> success, message |-> message,
      direct |-> direct, fallback |-> fallback, target |-> target ]

NoResponse == Response("none", FALSE, NULL, "none", "none", NULL)

\* DBUS_AVAILABLE and self._bus and self._active_call_path
DirectPossible(s) ==
    DBUS_AVAILABLE /\ bus # NULL /\ Truthy(s.active_call_path)

\* Mutant of FallbackTarget: dbus-send is always given the default path.
FallbackTargetDefault(s) == "/org/bluez"

\* self._active_call_path or "/org/bluez"
FallbackTarget(s) ==
    IF Truthy(s.active_call_path) THEN s.active_call_path ELSE "/org/bluez"

\* PhoneManager.answer_call: the response; the state is not written.
AnswerResponse(s, direct, fallback) ==
    IF ~IS_LINUX
    THEN Response("answer", FALSE, "Not supported on this platform",
                  "none", "none", NULL)
    ELSE IF s.call_state # "incoming"
    THEN Response("answer", FALSE, "No incoming call to answer",
                  "none", "none", NULL)
    ELSE IF DirectPossible(s) /\ direct = "ok"
    THEN Response("answer", TRUE, NULL, "ok", "none", NULL)
    ELSE LET d == IF DirectPossible(s) THEN "raises" ELSE "none"
         IN  CASE fallback = "rc0" ->
                    Response("answer", TRUE, NULL, d, "rc0", FallbackTarget(s))
               [] fallback = "rc1" ->
                    Response("answer", FALSE, "stderr", d, "rc1",
                             FallbackTarget(s))
               [] OTHER ->
                    Response("answer", FALSE, "exception", d, "raises",
                             FallbackTarget(s))

\* Mutant of HangupResponse: a non-zero exit of dbus-send is reported as a
\* failure, as answer_call reports it.
HangupResponseStrict(s, op, direct, fallback) ==
    IF ~IS_LINUX
    THEN Response(op, FALSE, "Not supported on this platform",
                  "none", "none", NULL)
    ELSE IF s.call_state = "idle"
    THEN Response(op, FALSE, "No active call", "none", "none", NULL)
    ELSE IF DirectPossible(s) /\ direct = "ok"
    THEN Response(op, TRUE, NULL, "ok", "none", NULL)
    ELSE LET d == IF DirectPossible(s) THEN "raises" ELSE "none"
         IN  IF fallback = "rc0"
             THEN Response(op, TRUE, NULL, d, "rc0", FallbackTarget(s))
             ELSE Response(op, FALSE, "stderr", d, fallback, FallbackTarget(s))

\* PhoneManager.hangup_call: the response.
HangupResponse(s, op, direct, fallback) ==
    IF ~IS_LINUX
    THEN Response(op, FALSE, "Not supported on this platform",
                  "none", "none", NULL)
    ELSE IF s.call_state = "idle"
    THEN Response(op, FALSE, "No active call", "none", "none", NULL)
    ELSE IF DirectPossible(s) /\ direct = "ok"
    THEN Response(op, TRUE, NULL, "ok", "none", NULL)
    ELSE LET d == IF DirectPossible(s) THEN "raises" ELSE "none"
         IN  CASE fallback = "rc0" ->
                    Response(op, TRUE, NULL, d, "rc0", FallbackTarget(s))
               [] fallback = "rc1" ->
                    Response(op, TRUE, "State updated", d, "rc1",
                             FallbackTarget(s))
               [] OTHER ->
                    Response(op, FALSE, "exception", d, "raises",
                             FallbackTarget(s))

\* self.call_state = "idle"; self._notify_listeners()
ResetCallState(s) == NotifyListeners([s EXCEPT !.call_state = "idle"])

\* Mutant of HangupState: the check for an idle call_state is missing.
HangupStateUnguarded(s, direct, fallback) ==
    IF ~IS_LINUX THEN s
    ELSE IF DirectPossible(s) /\ direct = "ok" THEN ResetCallState(s)
    ELSE IF fallback = "raises" THEN s
    ELSE ResetCallState(s)

\* PhoneManager.hangup_call: the state it leaves.  The reset follows the
\* direct call when that succeeded and otherwise follows subprocess.run, so
\* an exception of subprocess.run skips it.
HangupState(s, direct, fallback) ==
    IF ~IS_LINUX \/ s.call_state = "idle" THEN s
    ELSE IF DirectPossible(s) /\ direct = "ok" THEN ResetCallState(s)
    ELSE IF fallback = "raises" THEN s
    ELSE ResetCallState(s)

(***************************************************************************)
(* Streaming clients of /api/phone/events.  One record per connection:     *)
(* pc is where the generator is suspended (a yield) or blocked (the queue  *)
(* get), frames what it has yielded to the server, joined the number of    *)
(* snapshots produced when it connected, exit how the generator ended, and *)
(* discarded what it yielded into close().                                 *)
(***************************************************************************)
ClientIds == {"c1", "c2"}

NoClient ==
    [ pc |-> "idle", frames |-> <<>>, joined |-> 0, exit |-> "none",
      discarded |-> <<>> ]

\* f"data: {json.dumps(payload)}\n\n"
Frame(payload) == <<"data: ", payload, "\n\n">>

Heartbeat == [heartbeat |-> TRUE]

\* Mutant of QueueGet: the newest item leaves the queue (a LIFO queue).
QueueGetNewest(q) == [item |-> q[Len(q)], rest |-> SubSeq(q, 1, Len(q) - 1)]

\* queue.Queue.get: the oldest item leaves the queue.
QueueGet(q) == [item |-> Head(q), rest |-> Tail(q)]

\* threading.Thread(target=self._run_glib_loop, daemon=True).start(): the
\* thread has not yet created its main loop.
NewLoopThread == [pc |-> "started", quit |-> FALSE]

\* Signals are delivered by a main loop that is running.
LoopDispatching == \E t \in DOMAIN loop_threads : loop_threads[t].pc = "running"

\* No loop thread is between its start and loop.run().
LoopSettled ==
    \A t \in DOMAIN loop_threads : loop_threads[t].pc \in {"running", "done"}

(***************************************************************************)
(* Initial state: the module-level probes of the platform have run and     *)
(* PhoneManager.__init__ has built the singleton.                          *)
(***************************************************************************)
Init ==
    /\ IS_LINUX \in BOOLEAN
    /\ DBUS_AVAILABLE \in BOOLEAN
    /\ GLIB_AVAILABLE \in BOOLEAN
    /\ DBUS_AVAILABLE => IS_LINUX
    /\ GLIB_AVAILABLE => IS_LINUX
    /\ running = FALSE
    /\ bus = NULL
    /\ receivers = 0
    /\ start_calls = 0
    /\ stop_calls = 0
    /\ loop_threads = <<>>
    /\ loop = 0
    /\ poll_threads = 0
    /\ removed_pc = 0
    /\ hangup_pc = <<>>
    /\ observed = <<>>
    /\ connected_device = NULL
    /\ device_name = NULL
    /\ call_state = "idle"
    /\ caller_id = NULL
    /\ caller_name = NULL
    /\ active_call_path = NULL
    /\ recent_calls = <<>>
    /\ event_queue = <<>>
    /\ notify_count = 0
    /\ listeners = <<>>
    /\ invoked = <<>>
    /\ clock = 0
    /\ last = NoResponse
    /\ requests = 0
    /\ clients = [c \in ClientIds |-> NoClient]

(***************************************************************************)
(* Actions.                                                                *)
(***************************************************************************)
\* Mutant of Start: the check of self.running is missing.
StartAlways(busOutcome, enum) ==
    /\ UNCHANGED <<platformVars, raceVars, clock, cmdVars, clients>>
    /\ start_calls' = start_calls + 1
    /\ UNCHANGED <<stop_calls, loop>>
    /\ running' = TRUE
    /\ IF IS_LINUX /\ DBUS_AVAILABLE /\ GLIB_AVAILABLE /\ busOutcome = "ok"
       THEN /\ bus' = "SystemBus"
            /\ receivers' = receivers + 1
            /\ Apply(CheckConnectedDevices(Cur, TRUE, enum))
            /\ loop_threads' = Append(loop_threads, NewLoopThread)
       ELSE /\ UNCHANGED <<bus, receivers, loop_threads, bundle, fanoutVars>>
    /\ poll_threads' = poll_threads + 1

\* PhoneManager.start with _start_dbus_listener: busOutcome is whether
\* dbus.SystemBus() could be opened.
Start(busOutcome, enum) ==
    /\ UNCHANGED <<platformVars, raceVars, clock, cmdVars, clients>>
    /\ start_calls' = start_calls + 1
    /\ UNCHANGED <<stop_calls, loop>>
    /\ IF running
       THEN UNCHANGED <<running, bus, receivers, loop_threads, poll_threads,
                        bundle, fanoutVars>>
       ELSE /\ running' = TRUE
            /\ IF IS_LINUX /\ DBUS_AVAILABLE /\ GLIB_AVAILABLE
                  /\ busOutcome = "ok"
               THEN /\ bus' = "SystemBus"
                    /\ receivers' = receivers + 1
                    /\ Apply(CheckConnectedDevices(Cur, TRUE, enum))
                    /\ loop_threads' = Append(loop_threads, NewLoopThread)
               ELSE /\ UNCHANGED <<bus, receivers, loop_threads, bundle,
                                   fanoutVars>>
            /\ poll_threads' = poll_threads + 1

\* PhoneManager.stop: quit() reaches only a main loop that self._loop
\* already refers to, and stops it only if it is running; join(timeout=2)
\* gives up after two seconds.
Stop ==
    /\ stop_calls' = stop_calls + 1
    /\ running' = FALSE
    /\ loop_threads' =
           IF loop # 0 /\ loop_threads[loop].pc = "running"
           THEN [loop_threads EXCEPT ![loop].quit = TRUE]
           ELSE loop_threads
    /\ UNCHANGED <<bus, receivers, start_calls, loop, poll_threads>>
    /\ UNCHANGED <<platformVars, raceVars, bundle, fanoutVars, clock, cmdVars,
                   clients>>

\* PhoneManager._run_glib_loop, first statement: self._loop = GLib.MainLoop()
LoopCreate(t) ==
    /\ t \in DOMAIN loop_threads
    /\ loop_threads[t].pc = "started"
    /\ loop_threads' = [loop_threads EXCEPT ![t].pc = "created"]
    /\ loop' = t
    /\ UNCHANGED <<running, bus, receivers, start_calls, stop_calls,
                   poll_threads>>
    /\ UNCHANGED <<platformVars, raceVars, bundle, fanoutVars, clock, cmdVars,
                   clients>>

\* PhoneManager._run_glib_loop, second statement: self._loop.run() marks the
\* loop as running, whatever quit() did to it before, and dispatches.
LoopRun(t) ==
    /\ t \in DOMAIN loop_threads
    /\ loop_threads[t].pc = "created"
    /\ loop_threads' = [loop_threads EXCEPT ![t] = [pc |-> "running",
                                                     quit |-> FALSE]]
    /\ UNCHANGED <<running, bus, receivers, start_calls, stop_calls, loop,
                   poll_threads>>
    /\ UNCHANGED <<platformVars, raceVars, bundle, fanoutVars, clock, cmdVars,
                   clients>>

\* self._loop.run() returns after quit() and the loop thread ends.
LoopExit(t) ==
    /\ t \in DOMAIN loop_threads
    /\ loop_threads[t].pc = "running"
    /\ loop_threads[t].quit
    /\ loop_threads' = [loop_threads EXCEPT ![t].pc = "done"]
    /\ UNCHANGED <<running, bus, receivers, start_calls, stop_calls, loop,
                   poll_threads>>
    /\ UNCHANGED <<platformVars, raceVars, bundle, fanoutVars, clock, cmdVars,
                   clients>>

\* PhoneManager._poll_status: a polling thread finds self.running false at
\* the head of its loop and ends.
PollExit ==
    /\ ~running
    /\ poll_threads > 0
    /\ poll_threads' = poll_threads - 1
    /\ UNCHANGED <<running, bus, receivers, start_calls, stop_calls,
                   loop_threads, loop>>
    /\ UNCHANGED <<platformVars, raceVars, bundle, fanoutVars, clock, cmdVars,
                   clients>>

\* One round of PhoneManager._poll_status.
PollStatus(listing) ==
    /\ running
    /\ poll_threads > 0
    /\ UNCHANGED <<platformVars, raceVars, lifeVars, clock, cmdVars, clients>>
    /\ IF ~DBUS_AVAILABLE
       THEN Apply(CheckConnectionBluetoothctl(Cur, IS_LINUX, listing))
       ELSE UNCHANGED <<bundle, fanoutVars>>

\* PhoneManager._handle_properties_changed, delivered by the signal loop.
HandlePropertiesChanged(interface, changed, path, read) ==
    /\ receivers > 0
    /\ LoopDispatching
    /\ UNCHANGED <<platformVars, raceVars, lifeVars, clock, cmdVars, clients>>
    /\ IF interface = "org.bluez.Call1"
       THEN Apply(CallPropertiesChanged(Cur, changed, path))
       ELSE IF interface = "org.bluez.Device1"
       THEN Apply(DevicePropertiesChanged(Cur, changed, bus # NULL, read))
       ELSE UNCHANGED <<bundle, fanoutVars>>

\* PhoneManager._handle_interfaces_added
HandleInterfacesAdded(path, interfaces) ==
    /\ receivers > 0
    /\ LoopDispatching
    /\ UNCHANGED <<platformVars, raceVars, lifeVars, clock, cmdVars, clients>>
    /\ IF "org.bluez.Call1" \in DOMAIN interfaces
       THEN Apply(CallInterfaceAdded(Cur, interfaces["org.bluez.Call1"], path))
       ELSE UNCHANGED <<bundle, fanoutVars>>

\* PhoneManager._handle_interfaces_removed; time.strftime reads the clock.
HandleInterfacesRemoved(path, interfaces) ==
    /\ receivers > 0
    /\ LoopDispatching
    /\ UNCHANGED <<platformVars, raceVars, lifeVars, clock, cmdVars, clients>>
    /\ IF "org.bluez.Call1" \in interfaces
       THEN Apply(CallInterfaceRemoved(Cur, clock))
       ELSE UNCHANGED <<bundle, fanoutVars>>

\* Mutant of AnswerCall: a successful answer sets call_state = "active"
\* and notifies, as hangup_call resets it.
AnswerCallOptimistic(direct, fallback) ==
    /\ requests' = requests + 1
    /\ last' = AnswerResponse(Cur, direct, fallback)
    /\ IF last'.success
       THEN Apply(NotifyListeners([Cur EXCEPT !.call_state = "active"]))
       ELSE UNCHANGED <<bundle, fanoutVars>>
    /\ UNCHANGED <<platformVars, raceVars, lifeVars, clock, clients>>

\* POST /api/phone/answer
AnswerCall(direct, fallback) ==
    /\ requests' = requests + 1
    /\ last' = AnswerResponse(Cur, direct, fallback)
    /\ UNCHANGED <<platformVars, raceVars, lifeVars, bundle, fanoutVars, clock, clients>>

\* POST /api/phone/hangup
HangupCall(direct, fallback) ==
    /\ requests' = requests + 1
    /\ last' = HangupResponse(Cur, "hangup", direct, fallback)
    /\ Apply(HangupState(Cur, direct, fallback))
    /\ UNCHANGED <<platformVars, raceVars, lifeVars, clock, clients>>

\* POST /api/phone/reject: reject_call is hangup_call.
RejectCall(direct, fallback) ==
    /\ requests' = requests + 1
    /\ last' = HangupResponse(Cur, "reject", direct, fallback)
    /\ Apply(HangupState(Cur, direct, fallback))
    /\ UNCHANGED <<platformVars, raceVars, lifeVars, clock, clients>>

\* GET /api/phone/status: the response is get_status() as it reads the
\* bundle at that moment.
StatusRead ==
    /\ observed' =
           << IF ~PHONE_MANAGER_AVAILABLE
              THEN [ connected |-> FALSE, device |-> NULL,
                     device_name |-> NULL, call_state |-> "idle",
                     caller_id |-> NULL, caller_name |-> NULL,
                     message |-> "Phone manager not available" ]
              ELSE GetStatus(Cur) >>
    /\ UNCHANGED <<removed_pc, hangup_pc>>
    /\ UNCHANGED <<platformVars, lifeVars, bundle, fanoutVars, clock, cmdVars,
                   clients>>

\* A minute of wall-clock time passes.
Tick ==
    /\ clock' = clock + 1
    /\ UNCHANGED <<platformVars, raceVars, lifeVars, bundle, fanoutVars, cmdVars, clients>>

(***************************************************************************)
(* Spec: the call-state machine under daemon signals, polling and the      *)
(* answer / hangup / reject commands, with no streaming client draining    *)
(* the queue.                                                              *)
(***************************************************************************)
Signal ==
    \/ \E c \in CallChanges, p \in CallPaths :
           HandlePropertiesChanged("org.bluez.Call1", c, p, NoRead)
    \/ \E c \in DeviceChanges, r \in DeviceReads :
           HandlePropertiesChanged("org.bluez.Device1", c, "/dev", r)
    \/ HandlePropertiesChanged("org.bluez.MediaControl1",
                               [Connected |-> TRUE], "/dev", NoRead)
    \/ \E c \in CallChanges, p \in CallPaths :
           HandleInterfacesAdded(p, "org.bluez.Call1" :> c)
    \/ \E p \in CallPaths :
           HandleInterfacesAdded(p, "org.bluez.MediaTransport1" :> [Volume |-> "1"])
    \/ \E p \in CallPaths :
           HandleInterfacesRemoved(p, {"org.bluez.Call1"})
    \/ \E p \in CallPaths :
           HandleInterfacesRemoved(p, {"org.bluez.MediaTransport1"})

\* The daemon interactions of one command: the fallback runs only after
\* the direct call has failed or was not possible.
DaemonOutcomes ==
    { <<"ok", "rc0">> } \cup { <<"raises", f>> : f \in FallbackOutcomes }

Command ==
    \/ \E o \in DaemonOutcomes : AnswerCall(o[1], o[2])
    \/ \E o \in DaemonOutcomes : HangupCall(o[1], o[2])
    \/ \E o \in DaemonOutcomes : RejectCall(o[1], o[2])

\* app.py calls start() once; the commands and polling rounds are followed
\* from the moment the loop thread, if there is one, dispatches.
Next ==
    \/ ~running /\ \E b \in {"ok", "raises"}, e \in Enumerations : Start(b, e)
    \/ \E t \in DOMAIN loop_threads : LoopCreate(t)
    \/ \E t \in DOMAIN loop_threads : LoopRun(t)
    \/ notify_count < MaxNotifies /\ Signal
    \/ notify_count < MaxNotifies /\ LoopSettled
          /\ \E l \in Listings : PollStatus(l)
    \/ requests < MaxRequests /\ LoopSettled /\ Command

Spec == Init /\ [][Next]_vars

(***************************************************************************)
(* The generator of phone_events.                                          *)
(***************************************************************************)
clientFrame == <<platformVars, lifeVars, raceVars, bundle, notify_count,
                 listeners, invoked, clock, cmdVars>>

\* A client connects and the server starts iterating generate(): the first
\* next() runs to the first yield.
Connect(c) ==
    /\ clients[c].pc = "idle"
    /\ clients' = [clients EXCEPT ![c] =
           IF ~PHONE_MANAGER_AVAILABLE
           THEN [@ EXCEPT !.pc = "yield_error",
                          !.frames = <<Frame([error |-> "Phone manager not available"])>>,
                          !.joined = notify_count]
           ELSE [@ EXCEPT !.pc = "yield_initial",
                          !.frames = <<Frame(GetStatus(Cur))>>,
                          !.joined = notify_count]]
    /\ UNCHANGED <<clientFrame, event_queue>>

\* The server has written the frame and calls next(): after the error
\* frame the generator returns, otherwise it enters event_queue.get.
Resume(c) ==
    /\ clients[c].pc \in {"yield_error", "yield_initial", "yield_data",
                          "yield_heartbeat"}
    /\ clients' = [clients EXCEPT ![c] =
           IF @.pc = "yield_error"
           THEN [@ EXCEPT !.pc = "closed", !.exit = "returned"]
           ELSE [@ EXCEPT !.pc = "waiting"]]
    /\ UNCHANGED <<clientFrame, event_queue>>

\* event_queue.get(timeout=30) returns an item, which is yielded.
GetData(c) ==
    /\ clients[c].pc = "waiting"
    /\ event_queue # <<>>
    /\ LET got == QueueGet(event_queue)
       IN  /\ event_queue' = got.rest
           /\ clients' = [clients EXCEPT ![c] =
                  [@ EXCEPT !.pc = "yield_data",
                            !.frames = Append(@, Frame(got.item))]]
    /\ UNCHANGED clientFrame

\* event_queue.get(timeout=30) raises queue.Empty after 30 s on an empty
\* queue; the bare except yields a heartbeat.
GetTimeout(c) ==
    /\ clients[c].pc = "waiting"
    /\ event_queue = <<>>
    /\ clients' = [clients EXCEPT ![c] =
           [@ EXCEPT !.pc = "yield_heartbeat",
                     !.frames = Append(@, Frame(Heartbeat))]]
    /\ UNCHANGED <<clientFrame, event_queue>>

\* The client is gone and the server closes the generator: GeneratorExit is
\* raised at the yield it is suspended at.  At the yield of a snapshot the
\* yield is inside the try, the bare except catches GeneratorExit and the
\* handler yields a heartbeat, for which close() raises RuntimeError.
Close(c) ==
    /\ clients[c].pc \in {"yield_error", "yield_initial", "yield_data",
                          "yield_heartbeat"}
    /\ clients' = [clients EXCEPT ![c] =
           IF @.pc = "yield_data"
           THEN [@ EXCEPT !.pc = "closed", !.exit = "RuntimeError",
                          !.discarded = <<Frame(Heartbeat)>>]
           ELSE [@ EXCEPT !.pc = "closed", !.exit = "clean"]]
    /\ UNCHANGED <<clientFrame, event_queue>>

(***************************************************************************)
(* SpecStream: two streaming clients on the shared queue while the state   *)
(* of a call changes.                                                      *)
(***************************************************************************)
StreamChanges ==
    { [State |-> "incoming", LineIdentification |-> i] : i \in CallerIds }
    \cup { [State |-> "active"] }

NextStream ==
    \/ ~running /\ \E e \in Enumerations : Start("ok", e)
    \/ \E t \in DOMAIN loop_threads : LoopCreate(t)
    \/ \E t \in DOMAIN loop_threads : LoopRun(t)
    \/ /\ notify_count < MaxStreamNotifies
       /\ \E ch \in StreamChanges, p \in CallPaths :
              HandlePropertiesChanged("org.bluez.Call1", ch, p, NoRead)
    \/ \E c \in ClientIds : Connect(c)
    \/ \E c \in ClientIds : Resume(c)
    \/ \E c \in ClientIds : Len(clients[c].frames) < MaxFrames /\ GetData(c)
    \/ \E c \in ClientIds : Len(clients[c].frames) < MaxFrames /\ GetTimeout(c)
    \/ \E c \in ClientIds : Close(c)

SpecStream == Init /\ [][NextStream]_vars

(***************************************************************************)
(* SpecRecent: calls that come and go (interface added, then removed)      *)
(* until the recent-calls list is past its cap, with the clock advancing.  *)
(***************************************************************************)
NextRecent ==
    \/ ~running /\ \E e \in Enumerations : Start("ok", e)
    \/ \E t \in DOMAIN loop_threads : LoopCreate(t)
    \/ \E t \in DOMAIN loop_threads : LoopRun(t)
    \/ /\ notify_count < MaxRecentNotifies
       /\ call_state = "idle"
       /\ \E p \in CallPaths :
              \E i \in CallerIds :
                  HandleInterfacesAdded(p, "org.bluez.Call1" :>
                      [State |-> "incoming", LineIdentification |-> i])
    \/ /\ notify_count < MaxRecentNotifies
       /\ call_state # "idle"
       /\ \E p \in CallPaths : HandleInterfacesRemoved(p, {"org.bluez.Call1"})
    \/ clock < MaxClock /\ Tick
    \/ StatusRead

SpecRecent == Init /\ [][NextRecent]_vars

(***************************************************************************)
(* Properties.  A command step is a step that serves a request; the op of  *)
(* the response tells which command it was.                                *)
(***************************************************************************)
Served(ops) == requests' # requests /\ last'.op \in ops

IdentityCleared ==
    caller_id = NULL /\ caller_name = NULL /\ active_call_path = NULL

\* C1: whenever call_state is "idle", caller_id, caller_name and
\* _active_call_path are all None.
C1_IdentityOnlyWhileInCall == call_state = "idle" => IdentityCleared

\* C2: a hangup or reject served while call_state is not "idle" leaves
\* call_state = "idle", whatever the daemon interaction did.
C2_HangupAlwaysIdle ==
    [][(Served({"hangup", "reject"}) /\ call_state # "idle")
           => call_state' = "idle"]_vars

\* A device-disconnect event: a Device1 signal with Connected = false, or a
\* polling round that lists no connected device while one is recorded.
DeviceDisconnectStep ==
    \/ \E ch \in DeviceChanges, r \in DeviceReads :
           /\ "Connected" \in DOMAIN ch
           /\ ~ch.Connected
           /\ HandlePropertiesChanged("org.bluez.Device1", ch, "/dev", r)
    \/ \E l \in Listings :
           /\ l.outcome = "none"
           /\ IS_LINUX /\ ~DBUS_AVAILABLE /\ Truthy(connected_device)
           /\ PollStatus(l)

\* C3: every device-disconnect event leaves connected_device, device_name,
\* caller_id, caller_name and _active_call_path None and call_state "idle",
\* whatever the state before (so a second one changes none of them).
C3_DisconnectResets ==
    [][DeviceDisconnectStep =>
          /\ connected_device' = NULL
          /\ device_name' = NULL
          /\ call_state' = "idle"
          /\ caller_id' = NULL
          /\ caller_name' = NULL
          /\ active_call_path' = NULL]_vars

\* C4: recent_calls never has more than 20 entries, and it changes only by
\* a new entry entering at index 0 in front of the old entries in their
\* old order, of which only the tail beyond 20 is dropped.
C4_RecentCallsNewestFirst ==
    /\ [](Len(recent_calls) <= 20)
    /\ [][recent_calls' # recent_calls =>
             /\ Len(recent_calls') >= 1
             /\ recent_calls' =
                    Take(<<recent_calls'[1]>> \o recent_calls, 20)]_vars

\* 21 calls have ended: the list is full, its oldest entry has been dropped
\* and its entries are not all alike.
C4_Witness ==
    /\ notify_count >= 42
    /\ Len(recent_calls) = 20
    /\ recent_calls[1].time # recent_calls[20].time

\* C5: answer with call_state # "incoming", and hangup / reject with
\* call_state = "idle", return success = false, call the daemon neither
\* directly nor through dbus-send, write no field of the state and emit no
\* snapshot.
C5_PreconditionViolated ==
    [][(\/ Served({"answer"}) /\ call_state # "incoming"
        \/ Served({"hangup", "reject"}) /\ call_state = "idle")
           => /\ last'.success = FALSE
              /\ last'.direct = "none"
              /\ last'.fallback = "none"
              /\ UNCHANGED <<bundle, fanoutVars>>]_vars

\* A hangup was refused for want of a call, on a platform where it is
\* supported and after a snapshot had been produced.
C5_Witness ==
    /\ last.op = "hangup"
    /\ last.message = "No active call"
    /\ notify_count > 0

DaemonSucceeded == last.direct = "ok" \/ last.fallback = "rc0"

C7_AnswerWritesNothing ==
    [][Served({"answer"}) => UNCHANGED <<bundle, fanoutVars>>]_vars

\* An answer was accepted by the daemon and the call is still "incoming".
C7_Witness ==
    /\ last.op = "answer"
    /\ last.success
    /\ call_state = "incoming"

(***************************************************************************)
(* Properties of the event stream.                                         *)
(***************************************************************************)
Connected(c) == clients[c].pc \notin {"idle", "closed"}

IsData(frame) == "heartbeat" \notin DOMAIN frame[2]

\* The snapshots a client was sent after its initial frame.
DataAfterInitial(c) ==
    Cardinality({i \in 2..Len(clients[c].frames) : IsData(clients[c].frames[i])})

\* The number of snapshots that had been produced when the last client
\* connected.
LastJoin ==
    CHOOSE j \in {clients[c].joined : c \in ClientIds} :
        \A c \in ClientIds : clients[c].joined <= j

\* C8: with two or more clients connected, each of them is sent every
\* snapshot produced after they connected; once the queue is empty nothing
\* is left to send, so each must have been sent all of them by then.
C8_EveryClientSentEverySnapshot ==
    (event_queue = <<>> /\ \A c \in ClientIds : Connected(c))
        => \A c \in ClientIds : DataAfterInitial(c) >= notify_count - LastJoin

\* C9: a generator closed at any of its yields ends without an error and
\* without yielding another frame.
C9_CloseIsClean ==
    \A c \in ClientIds :
        clients[c].pc = "closed" =>
            clients[c].exit = "clean" /\ clients[c].discarded = <<>>

IsPrefix(s, t) == Len(s) <= Len(t) /\ SubSeq(t, 1, Len(s)) = s

\* C10: the first frame of a stream is the snapshot of the state at
\* connection time; every later frame is the snapshot at the head of the
\* shared queue, which leaves the queue, or a heartbeat; snapshots enter the
\* queue at its tail only; and no generator returns on its own.
C10_StreamFrames ==
    [][/\ \A c \in ClientIds :
              clients'[c].frames # clients[c].frames =>
                  \/ /\ clients[c].frames = <<>>
                     /\ clients'[c].frames = <<Frame(GetStatus(Cur))>>
                  \/ /\ event_queue # <<>>
                     /\ clients'[c].frames =
                            Append(clients[c].frames, Frame(Head(event_queue)))
                     /\ event_queue' = Tail(event_queue)
                  \/ /\ clients'[c].frames =
                            Append(clients[c].frames, Frame(Heartbeat))
                     /\ event_queue' = event_queue
       /\ event_queue' # event_queue =>
              \/ event_queue # <<>> /\ event_queue' = Tail(event_queue)
              \/ IsPrefix(event_queue, event_queue')
       /\ \A c \in ClientIds : clients'[c].exit # "returned"]_vars

\* A client was sent its initial snapshot, then two different queued
\* snapshots, then a heartbeat.
C10_Witness ==
    \E c \in ClientIds :
        /\ Len(clients[c].frames) = 4
        /\ IsData(clients[c].frames[2])
        /\ IsData(clients[c].frames[3])
        /\ clients[c].frames[2] # clients[c].frames[3]
        /\ ~IsData(clients[c].frames[4])

\* The heartbeat frames a generator has yielded, to the server or into
\* close().
Heartbeats(cl) ==
    Len(SelectSeq(cl.frames \o cl.discarded, LAMBDA f : f = Frame(Heartbeat)))

\* C11: a generator yields a heartbeat frame only from a queue wait that
\* timed out on an empty queue, one frame per such wait and with nothing
\* taken off the queue, and from the heartbeat it goes back to waiting on
\* the queue.
C11_HeartbeatOnlyOnTimeout ==
    [][\A c \in ClientIds :
          /\ Heartbeats(clients'[c]) > Heartbeats(clients[c]) =>
                /\ clients[c].pc = "waiting"
                /\ event_queue = <<>>
                /\ event_queue' = <<>>
                /\ Heartbeats(clients'[c]) = Heartbeats(clients[c]) + 1
                /\ clients'[c].pc = "yield_heartbeat"
          /\ (clients[c].pc = "yield_heartbeat"
                 /\ clients'[c].pc \notin {"yield_heartbeat", "closed"}) =>
                clients'[c].pc = "waiting"]_vars

(***************************************************************************)
(* dial_number.  A number is the sequence of its characters.               *)
(***************************************************************************)
Digits == {"0", "1", "2", "3", "4", "5", "6", "7", "8", "9"}

\* c.isdigit() or c in '+*#'
DialChar(c) == c \in Digits \/ c \in {"+", "*", "#"}

\* Mutant of CleanNumber: only the digits are kept.
CleanNumberDigitsOnly(number) == SelectSeq(number, LAMBDA c : c \in Digits)

\* ''.join(c for c in number if c.isdigit() or c in '+*#')
RECURSIVE CleanNumber(_)
CleanNumber(number) ==
    IF number = <<>> THEN <<>>
    ELSE IF DialChar(Head(number))
         THEN <<Head(number)>> \o CleanNumber(Tail(number))
         ELSE CleanNumber(Tail(number))

\* The numbers posted to /api/phone/dial: none, "555-1234", "+1 (2)#*" and
\* "-".
DialInputs ==
    { <<>>,
      <<"5", "5", "5", "-", "1", "2", "3", "4">>,
      <<"+", "1", " ", "(", "2", ")", "#", "*">>,
      <<"-">> }

\* PhoneManager.dial_number: the response, with the argument (input) and the
\* value of the local variable number when the method returns.
DialResponse(s, number) ==
    LET Failure(message, local) ==
            [ op |-> "dial", success |-> FALSE, message |-> message,
              direct |-> "none", fallback |-> "none", target |-> NULL,
              input |-> number, number |-> local ]
    IN  IF ~IS_LINUX
        THEN Failure("Not supported on this platform", number)
        ELSE IF number = <<>>
        THEN Failure("No number provided", number)
        ELSE IF ~Truthy(s.connected_device)
        THEN Failure("No phone connected", number)
        ELSE Failure("Outgoing calls require phone initiation",
                     CleanNumber(number))

\* POST /api/phone/dial
DialNumber(number) ==
    /\ requests' = requests + 1
    /\ last' = DialResponse(Cur, number)
    /\ UNCHANGED <<platformVars, raceVars, lifeVars, bundle, fanoutVars, clock,
                   clients>>

\* SpecDial: snapshots produced, dial requests served.
MaxDialNotifies == 2
MaxDialRequests == 1

(***************************************************************************)
(* SpecDial: dial requests in the states the signals and the polling lead  *)
(* to.                                                                     *)
(***************************************************************************)
NextDial ==
    \/ ~running /\ \E b \in {"ok", "raises"}, e \in Enumerations : Start(b, e)
    \/ \E t \in DOMAIN loop_threads : LoopCreate(t)
    \/ \E t \in DOMAIN loop_threads : LoopRun(t)
    \/ notify_count < MaxDialNotifies /\ Signal
    \/ notify_count < MaxDialNotifies /\ \E l \in Listings : PollStatus(l)
    \/ requests < MaxDialRequests /\ \E n \in DialInputs : DialNumber(n)

SpecDial == Init /\ [][NextDial]_vars

\* The messages of the model that contain the word "require".
RequireMessages == {"Outgoing calls require phone initiation"}

\* A dial request served for a non-empty number fails, reaches the daemon
\* in no way, and leaves the manager and the queue as they were.
DialRefused ==
    /\ ~last'.success
    /\ last'.direct = "none" /\ last'.fallback = "none"
    /\ UNCHANGED <<lifeVars, bundle, fanoutVars>>

\* The number was reduced to its digits and + * # and the request failed as
\* not supported.
DialNotSupported ==
    /\ last'.number = SelectSeq(last'.input, LAMBDA c : c \in Digits \cup {"+", "*", "#"})
    /\ last'.message \in RequireMessages

\* C12: in every state, a dial request for a non-empty number fails with
\* the not-supported message (containing "require") after reducing the
\* number to digits and + * #, without a daemon operation, a state change
\* or a snapshot.
C12_DialNotSupported ==
    [][(Served({"dial"}) /\ last'.input # <<>>) =>
          DialRefused /\ DialNotSupported]_vars

\* C12 amended: the reduction of the number and the not-supported message
\* are what a dial request gets on Linux with a phone connected; without a
\* phone it is refused with "No phone connected" and off Linux with "Not
\* supported on this platform", the number untouched.
C12_DialNotSupportedAmended ==
    [][(Served({"dial"}) /\ last'.input # <<>>) =>
          /\ DialRefused
          /\ (IS_LINUX /\ Truthy(connected_device)) => DialNotSupported
          /\ (IS_LINUX /\ ~Truthy(connected_device)) =>
                 /\ last'.message = "No phone connected"
                 /\ last'.number = last'.input
          /\ ~IS_LINUX =>
                 /\ last'.message = "Not supported on this platform"
                 /\ last'.number = last'.input]_vars

C12_Witness ==
    /\ last.op = "dial"
    /\ last.input = <<"5", "5", "5", "-", "1", "2", "3", "4">>
    /\ last.number = <<"5", "5", "5", "1", "2", "3", "4">>
    /\ last.message \in RequireMessages
    /\ call_state # "idle"

\* snap carries the first min(10, n) entries of the stored list, in the
\* same order, and says connected exactly when it names a device.
SnapshotOf(snap, stored) ==
    /\ Len(snap.recent_calls) <= 10
    /\ Len(snap.recent_calls) = (IF Len(stored) < 10 THEN Len(stored) ELSE 10)
    /\ \A i \in 1..Len(snap.recent_calls) : snap.recent_calls[i] = stored[i]
    /\ snap.connected <=> snap.device # NULL

\* C13: the snapshot a notify puts on the queue and the snapshot a status
\* request returns hold at most 10 recent calls, the first min(10, n) of
\* the stored list in order, and connected is true exactly when device is
\* not None.
C13_SnapshotShape ==
    [][/\ Len(event_queue') > Len(event_queue) =>
              SnapshotOf(event_queue'[Len(event_queue')], recent_calls')
       /\ observed' # observed => SnapshotOf(observed'[1], recent_calls)]_vars

C13_Witness ==
    /\ Len(recent_calls) > 10
    /\ observed # <<>>
    /\ Len(observed[1].recent_calls) = 10
    /\ observed[1].recent_calls = SubSeq(recent_calls, 1, 10)
    /\ observed[1].connected
    /\ event_queue # <<>>
    /\ Len(event_queue[Len(event_queue)].recent_calls) = 10

(***************************************************************************)
(* SpecLife: start() and stop() called in any order while the loop thread  *)
(* and the polling threads take their steps.                               *)
(***************************************************************************)
\* SpecLife: calls of start(), calls of stop(), snapshots produced.
MaxStartCalls == 3
MaxStopCalls == 2
MaxLifeNotifies == 2

NextLife ==
    \/ /\ start_calls < MaxStartCalls
       /\ \E b \in {"ok", "raises"}, e \in Enumerations : Start(b, e)
    \/ stop_calls < MaxStopCalls /\ Stop
    \/ \E t \in DOMAIN loop_threads : LoopCreate(t)
    \/ \E t \in DOMAIN loop_threads : LoopRun(t)
    \/ \E t \in DOMAIN loop_threads : LoopExit(t)
    \/ notify_count < MaxLifeNotifies /\ \E l \in Listings : PollStatus(l)
    \/ PollExit

SpecLife == Init /\ [][NextLife]_vars

\* C14: a call of start() while the manager is running registers no
\* signal receiver, starts no loop thread and no polling thread, and
\* changes nothing of the manager's state.
C14_StartIdempotent ==
    [][(start_calls' # start_calls /\ running) =>
          /\ receivers' = receivers
          /\ loop_threads' = loop_threads
          /\ poll_threads' = poll_threads
          /\ UNCHANGED <<running, bus, loop, bundle, fanoutVars>>]_vars

\* start() was called again while running: one set of receivers, one loop
\* thread, one polling thread.
C14_Witness ==
    /\ start_calls >= 2
    /\ stop_calls = 0
    /\ running
    /\ receivers = 1
    /\ Len(loop_threads) = 1
    /\ poll_threads = 1

\* C19: once stop() has been called and start() not again, no main loop is
\* left running without a quit() that reached it (so that each loop thread
\* can end).
C19_StopTerminates ==
    (stop_calls > 0 /\ ~running) =>
        \A t \in DOMAIN loop_threads :
            loop_threads[t].pc = "running" => loop_threads[t].quit

\* C15: a daemon signal whose handling changes the state bundle produces
\* exactly one snapshot, however many fields it changes.
C15_OneNotifyPerSignal ==
    [][(Signal /\ bundle' # bundle) => notify_count' = notify_count + 1]_vars

\* C16: the event queue has a capacity, and a notify never makes the queue
\* longer than it.
C16_QueueBounded ==
    [][Len(event_queue') > Len(event_queue) =>
          (QueueMaxSize > 0 /\ Len(event_queue') <= QueueMaxSize)]_vars

\* The manager runs without a usable signal bus: dbus or GLib could not be
\* imported, or the listener was not set up.
SignalBusUnusable ==
    running /\ (~DBUS_AVAILABLE \/ ~GLIB_AVAILABLE \/ bus = NULL)

\* C18: on Linux, while the signal bus cannot be used, the next polling
\* round in which the command-line listing names a connected phone records
\* that phone in connected_device.
C18_PollingFallback ==
    (IS_LINUX /\ SignalBusUnusable /\ poll_threads > 0) =>
        \A l \in Listings :
            l.outcome = "found" =>
                ENABLED (PollStatus(l) /\ connected_device' = l.Address)

(***************************************************************************)
(* SpecCalls: calls announced with and without a number and a name, in     *)
(* any state the daemon reports, and their removal.                        *)
(***************************************************************************)
\* SpecCalls: snapshots produced.
MaxCallNotifies == 4

\* Property dictionaries of a Call1 object; a withheld number or a missing
\* name arrives as the empty string or not at all.
WideCallChanges ==
    { [State |-> st, LineIdentification |-> i, Name |-> n] :
          st \in {"incoming", "dialing"},
          i \in CallerIds \cup {""}, n \in CallerNames \cup {""} }
    \cup { [State |-> st, LineIdentification |-> i] :
               st \in {"incoming", "dialing"}, i \in CallerIds }
    \cup { [State |-> "active"], [State |-> "incoming"] }

NextCalls ==
    \/ ~running /\ Start("ok", [outcome |-> "none"])
    \/ \E t \in DOMAIN loop_threads : LoopCreate(t)
    \/ \E t \in DOMAIN loop_threads : LoopRun(t)
    \/ /\ notify_count < MaxCallNotifies
       /\ \E ch \in WideCallChanges, p \in CallPaths :
              HandleInterfacesAdded(p, "org.bluez.Call1" :> ch)
    \/ /\ notify_count < MaxCallNotifies
       /\ \E ch \in WideCallChanges, p \in CallPaths :
              HandlePropertiesChanged("org.bluez.Call1", ch, p, NoRead)
    \/ /\ notify_count < MaxCallNotifies
       /\ \E p \in CallPaths : HandleInterfacesRemoved(p, {"org.bluez.Call1"})

SpecCalls == Init /\ [][NextCalls]_vars

\* C20: the removal of a call interface, when caller_id is set (not None
\* and not empty), puts one entry at the head of recent_calls with the
\* caller_id as number, the caller_name (the caller_id when there is none)
\* as name and the type "incoming" exactly when call_state was "incoming",
\* "outgoing" otherwise; when caller_id is not set it leaves recent_calls
\* alone; either way call_state becomes "idle" and caller_id, caller_name
\* and the call path None.
C20_RemovalLogsCall ==
    [][(\E p \in CallPaths : HandleInterfacesRemoved(p, {"org.bluez.Call1"})) =>
          /\ IF Truthy(caller_id)
             THEN /\ recent_calls' # <<>>
                  /\ Tail(recent_calls') = Take(recent_calls, 19)
                  /\ recent_calls'[1].number = caller_id
                  /\ recent_calls'[1].name =
                         (IF Truthy(caller_name) THEN caller_name ELSE caller_id)
                  /\ recent_calls'[1].type = "incoming" <=> call_state = "incoming"
                  /\ recent_calls'[1].type = "outgoing" <=> call_state # "incoming"
             ELSE recent_calls' = recent_calls
          /\ call_state' = "idle"
          /\ caller_id' = NULL
          /\ caller_name' = NULL
          /\ active_call_path' = NULL]_vars

\* Two calls have been logged: an outgoing one under its name above an
\* incoming one without a name.
C20_Witness ==
    /\ Len(recent_calls) = 2
    /\ recent_calls[1].type = "outgoing"
    /\ recent_calls[1].name \in CallerNames
    /\ recent_calls[2].type = "incoming"
    /\ recent_calls[2].name = recent_calls[2].number
    /\ call_state = "idle"
    /\ IdentityCleared

(***************************************************************************)
(* SpecRace: the loop thread inside _handle_interfaces_removed, statement  *)
(* by statement, next to HTTP threads in get_status and hangup_call.  No   *)
(* lock is taken anywhere, so the threads interleave between statements    *)
(* and around the blocking daemon call of hangup_call.  removed_pc is the  *)
(* statement the handler is at (0: not in the handler), hangup_pc holds    *)
(* what hangup_call read at its check while its daemon call is under way.  *)
(***************************************************************************)
\* SpecRace: snapshots the signals produce, hangup requests.
MaxRaceNotifies == 3
MaxRaceRequests == 1

RacePaths == {"/call/1", "/call/2"}

\* _handle_interfaces_removed up to and including the logging of the call.
RemovedBegin(path, interfaces) ==
    /\ receivers > 0
    /\ LoopDispatching
    /\ removed_pc = 0
    /\ "org.bluez.Call1" \in interfaces
    /\ Apply(IF Truthy(caller_id)
             THEN [Cur EXCEPT !.recent_calls =
                                  LogRecentCall(@, RecentCallEntry(Cur, clock))]
             ELSE Cur)
    /\ removed_pc' = 1
    /\ UNCHANGED <<hangup_pc, observed>>
    /\ UNCHANGED <<platformVars, lifeVars, clock, cmdVars, clients>>

\* The next statement of _handle_interfaces_removed: the four resets, then
\* _notify_listeners.
RemovedStep ==
    /\ removed_pc # 0
    /\ Apply(CASE removed_pc = 1 -> [Cur EXCEPT !.call_state = "idle"]
               [] removed_pc = 2 -> [Cur EXCEPT !.caller_id = NULL]
               [] removed_pc = 3 -> [Cur EXCEPT !.caller_name = NULL]
               [] removed_pc = 4 -> [Cur EXCEPT !.active_call_path = NULL]
               [] OTHER          -> NotifyListeners(Cur))
    /\ removed_pc' = IF removed_pc = 5 THEN 0 ELSE removed_pc + 1
    /\ UNCHANGED <<hangup_pc, observed>>
    /\ UNCHANGED <<platformVars, lifeVars, clock, cmdVars, clients>>

\* POST /api/phone/hangup up to the daemon call: the platform and
\* call_state are checked; a refused request is answered at once.
HangupBegin ==
    /\ hangup_pc = <<>>
    /\ IF ~IS_LINUX \/ call_state = "idle"
       THEN /\ requests' = requests + 1
            /\ last' = HangupResponse(Cur, "hangup", "none", "none")
            /\ UNCHANGED hangup_pc
       ELSE /\ hangup_pc' = <<Cur>>
            /\ UNCHANGED cmdVars
    /\ UNCHANGED <<removed_pc, observed>>
    /\ UNCHANGED <<platformVars, lifeVars, bundle, fanoutVars, clock, clients>>

\* The daemon call of hangup_call returns: call_state is reset and the
\* listeners notified unless dbus-send raised, and the request is answered.
HangupFinish(direct, fallback) ==
    /\ hangup_pc # <<>>
    /\ LET seen == hangup_pc[1]
       IN  /\ requests' = requests + 1
           /\ last' = HangupResponse(seen, "hangup", direct, fallback)
           /\ Apply(IF HangupState(seen, direct, fallback) # seen
                    THEN ResetCallState(Cur)
                    ELSE Cur)
    /\ hangup_pc' = <<>>
    /\ UNCHANGED <<removed_pc, observed>>
    /\ UNCHANGED <<platformVars, lifeVars, clock, clients>>

NextRace ==
    \/ ~running /\ Start("ok", [outcome |-> "none"])
    \/ \E t \in DOMAIN loop_threads : LoopCreate(t)
    \/ \E t \in DOMAIN loop_threads : LoopRun(t)
    \/ /\ notify_count < MaxRaceNotifies
       /\ removed_pc = 0
       /\ \E p \in RacePaths, i \in CallerIds :
              HandleInterfacesAdded(p, "org.bluez.Call1" :>
                  [State |-> "incoming", LineIdentification |-> i])
    \/ /\ notify_count < MaxRaceNotifies
       /\ \E p \in RacePaths : RemovedBegin(p, {"org.bluez.Call1"})
    \/ RemovedStep
    \/ StatusRead
    \/ requests < MaxRaceRequests /\ HangupBegin
    \/ \E o \in DaemonOutcomes : HangupFinish(o[1], o[2])

SpecRace == Init /\ [][NextRace]_vars

\* C17: a status request served while the removal handler is at work does
\* not return call_state "idle" together with the caller_id of the call
\* that ended, and hangup_call never resets to "idle" an incoming call that
\* arrived after its check of call_state.
C17_MutualExclusion ==
    [][/\ (observed' # observed /\ removed_pc # 0) =>
              ~(observed'[1].call_state = "idle"
                   /\ observed'[1].caller_id # NULL)
       /\ (hangup_pc # <<>> /\ hangup_pc' = <<>>
              /\ call_state = "incoming"
              /\ active_call_path # hangup_pc[1].active_call_path)
             => call_state' = "incoming"]_vars

(***************************************************************************)
(* SpecStates: the daemon reports the state of a call in any spelling.     *)
(***************************************************************************)
\* SpecStates: snapshots produced.
MaxStateNotifies == 2

\* The state strings the daemon sends: the seven of the state map in
\* several letter cases, and strings the map does not know.
DaemonStates == DOMAIN Spelling

\* The Name property repeats the state string as it was sent.
StateChanges == { [State |-> st, Name |-> st] : st \in DaemonStates }

NextStates ==
    \/ ~running /\ Start("ok", [outcome |-> "none"])
    \/ \E t \in DOMAIN loop_threads : LoopCreate(t)
    \/ \E t \in DOMAIN loop_threads : LoopRun(t)
    \/ /\ notify_count < MaxStateNotifies
       /\ \E ch \in StateChanges, p \in CallPaths :
              HandlePropertiesChanged("org.bluez.Call1", ch, p, NoRead)
    \/ /\ notify_count < MaxStateNotifies
       /\ \E ch \in StateChanges, p \in CallPaths :
              HandleInterfacesAdded(p, "org.bluez.Call1" :> ch)

SpecStates == Init /\ [][NextStates]_vars

\* The state map of the specification: daemon state, call state.
Recognized ==
    { <<"incoming", "incoming">>, <<"dialing", "outgoing">>,
      <<"alerting", "alerting">>, <<"active", "active">>,
      <<"held", "held">>, <<"waiting", "incoming">>,
      <<"disconnected", "idle">> }

\* Two strings differ at most in the case of their letters.
SameIgnoringCase(a, b) ==
    LET x == Spelling[a]
        y == Spelling[b]
    IN  /\ Len(x) = Len(y)
        /\ \A i \in DOMAIN x :
               \/ x[i] = y[i]
               \/ \E k \in DOMAIN UpperLetters :
                      {x[i], y[i]} = {UpperLetters[k], LowerLetters[k]}

\* A call signal that carries the state string st.
StateSignal(st) ==
    \E p \in CallPaths :
        \/ HandlePropertiesChanged("org.bluez.Call1",
                                   [State |-> st, Name |-> st], p, NoRead)
        \/ HandleInterfacesAdded(p, "org.bluez.Call1" :>
                                        [State |-> st, Name |-> st])

\* C21: a call signal whose state string is, letter case aside, one of the
\* seven recognized ones leaves call_state at the value the state map
\* gives for it.
C21_StateMapIgnoresCase ==
    [][\A st \in DaemonStates, r \in Recognized :
          (SameIgnoringCase(st, r[1]) /\ StateSignal(st))
              => call_state' = r[2]]_vars

\* "DiAlInG" has made the call outgoing, after "Waiting" had made it
\* incoming (the first snapshot).
C21_Witness ==
    /\ caller_name = "DiAlInG"
    /\ call_state = "outgoing"
    /\ event_queue # <<>>
    /\ event_queue[1].caller_name = "Waiting"
    /\ event_queue[1].call_state = "incoming"

\* C22: a call signal whose state string is none of the seven recognized
\* ones, letter case aside, leaves call_state at exactly that string.
C22_UnknownStateVerbatim ==
    [][\A st \in DaemonStates :
          ((\A r \in Recognized : ~SameIgnoringCase(st, r[1])) /\ StateSignal(st))
              => call_state' = st]_vars

\* C23: an answer served while call_state is "incoming" tries the direct
\* daemon call first whenever a bus and a call path are there, runs
\* dbus-send only when the direct call was not possible or raised, gives
\* dbus-send the _active_call_path, and succeeds exactly when the direct
\* call succeeded or dbus-send exited with status 0.
C23_AnswerDirectThenFallback ==
    [][(Served({"answer"}) /\ call_state = "incoming") =>
          /\ (DBUS_AVAILABLE /\ bus # NULL /\ active_call_path # NULL)
                 => last'.direct \in {"ok", "raises"}
          /\ last'.direct = "ok" => last'.fallback = "none"
          /\ last'.fallback # "none" =>
                 /\ last'.direct \in {"none", "raises"}
                 /\ last'.target = active_call_path
          /\ last'.success <=> (last'.direct = "ok" \/ last'.fallback = "rc0")]_vars

\* The direct Answer raised and dbus-send, given the path of the call,
\* exited with 0.
C23_Witness ==
    /\ last.op = "answer"
    /\ last.direct = "raises"
    /\ last.fallback = "rc0"
    /\ last.success
    /\ last.target = active_call_path
    /\ call_state = "incoming"

\* C25: whatever start() and stop() calls were made, at most one polling
\* thread is alive.
C25_OnePollingTask == poll_threads <= 1

(***************************************************************************)
(* SpecFocus: two devices and two call objects, told apart by the object   *)
(* path their signals carry.                                               *)
(***************************************************************************)
\* SpecFocus: snapshots produced.
MaxFocusNotifies == 3

DevicePaths == {"/org/bluez/hci0/dev_AA_BB", "/org/bluez/hci0/dev_CC_DD"}

\* The Address and the Name the daemon holds for the device at a path.
PathAddress(path) ==
    IF path = "/org/bluez/hci0/dev_AA_BB" THEN "AA:BB" ELSE "CC:DD"
PathName(path) ==
    IF path = "/org/bluez/hci0/dev_AA_BB" THEN "Pixel 7" ELSE "Watch"

\* props.Get(Address) / props.Get(Name) on the device at a path.
FocusReads(path) ==
    { [outcome |-> o, Address |-> PathAddress(path), Name |-> PathName(path)] :
        o \in {"ok", "address_raises", "name_raises"} }

NextFocus ==
    \/ ~running /\ Start("ok", [outcome |-> "none"])
    \/ \E t \in DOMAIN loop_threads : LoopCreate(t)
    \/ \E t \in DOMAIN loop_threads : LoopRun(t)
    \/ /\ notify_count < MaxFocusNotifies
       /\ \E p \in DevicePaths, b \in BOOLEAN :
              \E r \in FocusReads(p) :
                  HandlePropertiesChanged("org.bluez.Device1",
                                          [Connected |-> b], p, r)
    \/ /\ notify_count < MaxFocusNotifies
       /\ \E p \in RacePaths, i \in CallerIds :
              HandleInterfacesAdded(p, "org.bluez.Call1" :>
                  [State |-> "incoming", LineIdentification |-> i])
    \/ /\ notify_count < MaxFocusNotifies
       /\ \E p \in RacePaths : HandleInterfacesRemoved(p, {"org.bluez.Call1"})

SpecFocus == Init /\ [][NextFocus]_vars

\* C26: a Device1 signal with Connected = false from a device other than
\* the recorded phone leaves the phone and the call as they are.
C26_OtherDeviceDisconnect ==
    [][\A p \in DevicePaths :
          (/\ connected_device # NULL
           /\ PathAddress(p) # connected_device
           /\ HandlePropertiesChanged("org.bluez.Device1",
                                      [Connected |-> FALSE], p, NoRead))
          => UNCHANGED <<connected_device, device_name, call_state, caller_id,
                         caller_name, active_call_path>>]_vars

\* C27: the removal of a call object other than the one in focus leaves the
\* call and the recent calls as they are.
C27_OtherCallRemoved ==
    [][\A p \in RacePaths :
          (/\ p # active_call_path
           /\ HandleInterfacesRemoved(p, {"org.bluez.Call1"}))
          => UNCHANGED <<call_state, caller_id, caller_name, active_call_path,
                         recent_calls>>]_vars

\* C28: a Device1 signal with Connected = true either leaves
\* connected_device and device_name alone (a property read failed) or sets
\* both from the device and produces one snapshot.
C28_ConnectAllOrNothing ==
    [][\A p \in DevicePaths :
          \A r \in FocusReads(p) :
              HandlePropertiesChanged("org.bluez.Device1",
                                      [Connected |-> TRUE], p, r)
              => IF r.outcome = "ok"
                 THEN /\ connected_device' = r.Address
                      /\ device_name' = r.Name
                      /\ notify_count' = notify_count + 1
                 ELSE UNCHANGED <<connected_device, device_name,
                                  notify_count>>]_vars

(***************************************************************************)
(* Order of production on the event stream.                                *)
(***************************************************************************)
\* The position, in order of production, of the snapshot at the head of the
\* shared queue: every snapshot produced was appended and snapshots leave
\* at the head only.
HeadProduced == notify_count - Len(event_queue) + 1

\* C29: the snapshot a streaming client is sent after its initial frame was
\* produced after the client connected, never before.
C29_NoStaleSnapshot ==
    [][\A c \in ClientIds :
          (clients[c].pc = "waiting" /\ clients'[c].pc = "yield_data")
              => HeadProduced > clients[c].joined]_vars

(***************************************************************************)
(* SpecListen: direct listeners come and go while the state of a call      *)
(* changes.                                                                *)
(***************************************************************************)
MaxListeners == 3
MaxListenNotifies == 2

\* PhoneManager.subscribe
Subscribe(callback) ==
    /\ Apply(SubscribeTo(Cur, callback))
    /\ UNCHANGED <<platformVars, lifeVars, raceVars, clock, cmdVars, clients>>

\* PhoneManager.unsubscribe
Unsubscribe(callback) ==
    /\ Apply(UnsubscribeFrom(Cur, callback))
    /\ UNCHANGED <<platformVars, lifeVars, raceVars, clock, cmdVars, clients>>

NextListen ==
    \/ ~running /\ Start("ok", [outcome |-> "none"])
    \/ \E t \in DOMAIN loop_threads : LoopCreate(t)
    \/ \E t \in DOMAIN loop_threads : LoopRun(t)
    \/ Len(listeners) < MaxListeners /\ \E cb \in Callbacks : Subscribe(cb)
    \/ \E cb \in Callbacks : Unsubscribe(cb)
    \/ /\ notify_count < MaxListenNotifies
       /\ \E ch \in StreamChanges, p \in CallPaths :
              HandlePropertiesChanged("org.bluez.Call1", ch, p, NoRead)

SpecListen == Init /\ [][NextListen]_vars

\* The callables of a sequence of calls, in order.
Called(calls) == [j \in DOMAIN calls |-> calls[j].callback]

Subscribed(seq) == {seq[k] : k \in DOMAIN seq}

\* A step that is one notify.
OneNotify == notify_count' = notify_count + 1

\* C24: on a notify the callbacks subscribed when it begins are invoked
\* once each, in the order of subscription and before any other, with the
\* snapshot that was put on the queue; a callback that raises does not keep
\* the ones after it from being invoked.
C24_EachListenerOnceInOrder ==
    [][OneNotify =>
          /\ IsPrefix(listeners, Called(invoked'))
          /\ \A j \in DOMAIN invoked' :
                 invoked'[j].data = event_queue'[Len(event_queue')]]_vars

\* C30: every callback subscribed when a notify begins is invoked during
\* it, whatever the callbacks subscribe or unsubscribe meanwhile; an
\* unsubscribe of a callback that is not subscribed changes nothing; and a
\* callback that is no longer subscribed is not invoked.
C30_ListenersStableDuringNotify ==
    [][/\ OneNotify =>
              /\ Subscribed(listeners) \subseteq Subscribed(Called(invoked'))
              /\ Subscribed(Called(invoked'))
                     \subseteq Subscribed(listeners) \cup Subscribed(listeners')
       /\ \A cb \in Callbacks :
              (Unsubscribe(cb) /\ cb \notin Subscribed(listeners))
                  => UNCHANGED vars]_vars

====
